---- MODULE Spec2Model ----
(***************************************************************************)
(* A model of cjdk's JDK index: its cached download, version matching and *)
(* url lookup (src/src/cjdk/_index.py), and of its Java home discovery    *)
(* (src/src/cjdk/_jdk.py).                                                 *)
(*                                                                         *)
(* Strings are sequences of one-character strings, so that splitting,      *)
(* integer parsing, prefix removal and string ordering are computed the    *)
(* way the Python code computes them.  A normalized version key is a       *)
(* sequence of naturals, optionally ended by the open-ended marker Plus.   *)
(***************************************************************************)
EXTENDS Integers, Sequences, FiniteSets, TLC

VARIABLES
    vendor,      \* _match_version: the vendor argument
    candidates,  \* _match_version: the list of candidate version strings
    requested,   \* _match_version: the requested version string
    mpc,         \* "ready" before the call of _match_version, "done" after
    matched,     \* the outcome of the call
    dirs,        \* the directories of the extracted tree, as paths from its root
    files,       \* the regular files of the tree
    hpc,         \* find_home: "idle", "running", "returned" or "raised"
    path,        \* find_home: the path argument of the running invocation
    recursion_depth,  \* find_home: its _recursion_depth argument
    home,        \* find_home: the path returned
    probes,      \* find_home: the tests made on the tree so far, in order
    index,       \* the JDK index: os -> arch -> "jdk@vendor" -> version -> url
    conf,        \* the Configuration: os, arch, vendor, version
    ipc,         \* "idle", then "listed", "resolved", "located" as the calls return
    jdks,        \* the outcome of available_jdks(index, conf)
    resolved,    \* the outcome of resolve_jdk_version(index, conf)
    url,         \* the outcome of jdk_url(index, conf)
    cacheConf,   \* the Configuration of jdk_index: url scheme, override, index_ttl
    slot,        \* the cached index file: whether it exists, its body, its mtime
    now,         \* the clock, in seconds
    gets,        \* the GET requests issued so far
    calls,       \* the calls of jdk_index so far, each with what it did
    cpc          \* "ready" while jdk_index may be called

matchVars == <<vendor, candidates, requested, mpc, matched>>

homeVars == <<dirs, files, hpc, path, recursion_depth, home, probes>>

indexVars == <<index, conf, ipc, jdks, resolved, url>>

cacheVars == <<cacheConf, slot, now, gets, calls, cpc>>

vars == <<matchVars, homeVars, indexVars, cacheVars>>

notMatch == <<homeVars, indexVars, cacheVars>>

notHome == <<matchVars, indexVars, cacheVars>>

notIndex == <<matchVars, homeVars, cacheVars>>

notCache == <<matchVars, homeVars, indexVars>>

----------------------------------------------------------------------------
(* Characters and strings *)

DigitChars == <<"0", "1", "2", "3", "4", "5", "6", "7", "8", "9">>

UpperChars == <<"A", "B", "C", "D", "E", "F", "G", "H", "I", "J", "K", "L", "M",
                "N", "O", "P", "Q", "R", "S", "T", "U", "V", "W", "X", "Y", "Z">>

LowerChars == <<"a", "b", "c", "d", "e", "f", "g", "h", "i", "j", "k", "l", "m",
                "n", "o", "p", "q", "r", "s", "t", "u", "v", "w", "x", "y", "z">>

\* the value of each decimal digit
DigitTable == [c \in {DigitChars[i] : i \in 1..10} |->
                  (CHOOSE i \in 1..10 : DigitChars[i] = c) - 1]

\* the lower-case letter of each upper-case letter
LowerTable == [c \in {UpperChars[i] : i \in 1..26} |->
                  LowerChars[CHOOSE i \in 1..26 : UpperChars[i] = c]]

IsDigit(c) == c \in DOMAIN DigitTable

DigitVal(c) == DigitTable[c]

\* str.lower() on one character
LowerChar(c) == IF c \in DOMAIN LowerTable THEN LowerTable[c] ELSE c

\* str.lower()
Lower(s) == [i \in 1..Len(s) |-> LowerChar(s[i])]

\* sub in s (substring containment)
Contains(s, sub) ==
    \E i \in 1..(Len(s) - Len(sub) + 1) : SubSeq(s, i, i + Len(sub) - 1) = sub

\* s.endswith(suffix)
EndsWith(s, suffix) ==
    /\ Len(s) >= Len(suffix)
    /\ SubSeq(s, Len(s) - Len(suffix) + 1, Len(s)) = suffix

----------------------------------------------------------------------------
(* _normalize_version *)

\* the element "+" that line 181 appends to a key; every integer element of a
\* key is a natural, so the marker is encoded as an integer that no element is
Plus == -1

\* _VER_SEPS = re.compile(r"[.-]")
IsVerSep(c) == c \in {".", "-"}

\* re.split(_VER_SEPS, ver): the pieces between separators, empty ones kept
RECURSIVE SplitFrom(_, _, _)
SplitFrom(ver, i, piece) ==
    IF i > Len(ver) THEN <<piece>>
    ELSE IF IsVerSep(ver[i]) THEN <<piece>> \o SplitFrom(ver, i + 1, <<>>)
    ELSE SplitFrom(ver, i + 1, Append(piece, ver[i]))

ReSplit(ver) == SplitFrom(ver, 1, <<>>)

\* decimal value of a string of digits
RECURSIVE DigitsValue(_)
DigitsValue(ds) ==
    IF ds = <<>> THEN 0
    ELSE 10 * DigitsValue(SubSeq(ds, 1, Len(ds) - 1)) + DigitVal(ds[Len(ds)])

\* int(e) succeeds: an optional sign and then one or more digits (over the
\* characters of the model: digits, letters, "+"; "-" never reaches int()
\* because it is a separator)
IntOk(e) ==
    LET body == IF Len(e) >= 1 /\ e[1] = "+" THEN Tail(e) ELSE e
    IN  /\ Len(body) >= 1
        /\ \A i \in 1..Len(body) : IsDigit(body[i])

\* int(e), when it succeeds
IntValue(e) ==
    DigitsValue(IF e[1] = "+" THEN Tail(e) ELSE e)

\* _normalize_version with trailing zero elements removed from the key
RECURSIVE StripTrailingZeros(_)
StripTrailingZeros(norm) ==
    IF Len(norm) > 1 /\ norm[Len(norm)] = 0
    THEN StripTrailingZeros(SubSeq(norm, 1, Len(norm) - 1))
    ELSE norm

NormalizeVersion_StripZeros(ver, remove_prefix_1) ==
    LET is_plus == EndsWith(ver, <<"+">>)
        v       == IF is_plus THEN SubSeq(ver, 1, Len(ver) - 1) ELSE ver
        pieces  == IF v # <<>> THEN ReSplit(v) ELSE <<>>
        plus    == IF is_plus THEN <<Plus>> ELSE <<>>
    IN  IF \E i \in 1..Len(pieces) : ~IntOk(pieces[i])
        THEN [err |-> "ValueError", key |-> <<>>]
        ELSE LET norm == StripTrailingZeros([i \in 1..Len(pieces) |-> IntValue(pieces[i])])
             IN  IF remove_prefix_1 /\ Len(norm) > 0 /\ norm[1] = 1
                 THEN [err |-> "none", key |-> Tail(norm) \o plus]
                 ELSE [err |-> "none", key |-> norm \o plus]

\* _normalize_version(ver, remove_prefix_1=...): [err, key]; err is "ValueError"
\* when some element is not an integer
NormalizeVersion(ver, remove_prefix_1) ==
    LET is_plus == EndsWith(ver, <<"+">>)
        v       == IF is_plus THEN SubSeq(ver, 1, Len(ver) - 1) ELSE ver
        pieces  == IF v # <<>> THEN ReSplit(v) ELSE <<>>
        plus    == IF is_plus THEN <<Plus>> ELSE <<>>
    IN  IF \E i \in 1..Len(pieces) : ~IntOk(pieces[i])
        THEN [err |-> "ValueError", key |-> <<>>]
        ELSE LET norm == [i \in 1..Len(pieces) |-> IntValue(pieces[i])]
             IN  IF remove_prefix_1 /\ Len(norm) > 0 /\ norm[1] = 1
                 THEN [err |-> "none", key |-> Tail(norm) \o plus]
                 ELSE [err |-> "none", key |-> norm \o plus]

----------------------------------------------------------------------------
(* Python's ordering of tuples *)

\* the first index at which a and b differ, 0 when one is a prefix of the other
FirstDiff(a, b) ==
    LET m == IF Len(a) < Len(b) THEN Len(a) ELSE Len(b)
    IN  IF \E i \in 1..m : a[i] # b[i]
        THEN CHOOSE i \in 1..m : a[i] # b[i] /\ \A j \in 1..(i - 1) : a[j] = b[j]
        ELSE 0

\* a > b on tuples: "True", "False", or "TypeError" when the first differing
\* elements are an integer and the marker "+"
TupleGt(a, b) ==
    LET i == FirstDiff(a, b)
    IN  IF i = 0 THEN (IF Len(a) > Len(b) THEN "True" ELSE "False")
        ELSE IF a[i] = Plus \/ b[i] = Plus THEN "TypeError"
        ELSE IF a[i] > b[i] THEN "True" ELSE "False"

----------------------------------------------------------------------------
(* _is_version_compatible_with_spec *)

\* _is_version_compatible_with_spec with ">" for ">=" on the last element of
\* an open-ended request
IsVersionCompatibleWithSpec_Strict(version, spec) ==
    IF \E i \in 1..Len(version) : version[i] = Plus THEN "AssertionError"
    ELSE
    LET is_plus == Len(spec) > 0 /\ spec[Len(spec)] = Plus
        s       == IF is_plus THEN SubSeq(spec, 1, Len(spec) - 1) ELSE spec
        n       == Len(s)
    IN  IF is_plus
        THEN IF n = 0 THEN "True"
             ELSE IF /\ Len(version) >= n
                     /\ SubSeq(version, 1, n - 1) = SubSeq(s, 1, n - 1)
                     /\ version[n] > s[n]
                  THEN "True" ELSE "False"
        ELSE IF Len(version) >= n /\ SubSeq(version, 1, n) = s
             THEN "True" ELSE "False"

\* _is_version_compatible_with_spec without the length test of the plain
\* rule: a candidate that is a prefix of the request passes too
IsVersionCompatibleWithSpec_NoLength(version, spec) ==
    IF \E i \in 1..Len(version) : version[i] = Plus THEN "AssertionError"
    ELSE
    LET is_plus == Len(spec) > 0 /\ spec[Len(spec)] = Plus
        s       == IF is_plus THEN SubSeq(spec, 1, Len(spec) - 1) ELSE spec
        n       == Len(s)
        m       == IF Len(version) < n THEN Len(version) ELSE n
    IN  IF is_plus
        THEN IF n = 0 THEN "True"
             ELSE IF /\ Len(version) >= n
                     /\ SubSeq(version, 1, n - 1) = SubSeq(s, 1, n - 1)
                     /\ version[n] >= s[n]
                  THEN "True" ELSE "False"
        ELSE IF SubSeq(version, 1, m) = SubSeq(s, 1, m)
             THEN "True" ELSE "False"

\* "AssertionError" when the assertion of line 188 fails, else "True"/"False"
IsVersionCompatibleWithSpec(version, spec) ==
    IF \E i \in 1..Len(version) : version[i] = Plus THEN "AssertionError"
    ELSE
    LET is_plus == Len(spec) > 0 /\ spec[Len(spec)] = Plus
        s       == IF is_plus THEN SubSeq(spec, 1, Len(spec) - 1) ELSE spec
        n       == Len(s)
    IN  IF is_plus
        THEN IF n = 0 THEN "True"
             ELSE IF /\ Len(version) >= n
                     /\ SubSeq(version, 1, n - 1) = SubSeq(s, 1, n - 1)
                     /\ version[n] >= s[n]
                  THEN "True" ELSE "False"
        ELSE IF Len(version) >= n /\ SubSeq(version, 1, n) = s
             THEN "True" ELSE "False"

----------------------------------------------------------------------------
(* _match_version *)

\* "graalvm" in vendor.lower()
IsGraal(v) == Contains(Lower(v), <<"g", "r", "a", "a", "l", "v", "m">>)

\* lines 134-143: the dict normcands, as the sequence of its (key, candidate)
\* items in insertion order; a later candidate with the same key replaces the
\* value and keeps the position, a candidate that does not normalize is skipped
RECURSIVE NormCands(_, _, _)
NormCands(cands, remove_prefix_1, items) ==
    IF cands = <<>> THEN items
    ELSE LET nc == NormalizeVersion(Head(cands), remove_prefix_1)
             next ==
                 IF nc.err # "none" THEN items
                 ELSE IF \E i \in 1..Len(items) : items[i].key = nc.key
                 THEN [i \in 1..Len(items) |->
                          IF items[i].key = nc.key
                          THEN [key |-> nc.key, cand |-> Head(cands)]
                          ELSE items[i]]
                 ELSE Append(items, [key |-> nc.key, cand |-> Head(cands)])
         IN  NormCands(Tail(cands), remove_prefix_1, next)

\* sorted(keys, reverse=True) raises TypeError: some comparison of two keys has
\* to order an integer against "+".  A comparison sort can place a key only
\* by comparing it with some key it cannot be ordered against, when there is
\* one, so the error is raised as soon as two keys are unordered.
SortRaises(keys) ==
    \E a \in keys : \E b \in keys : a # b /\ TupleGt(a, b) = "TypeError"

\* sorted(keys, reverse=True), for keys that are pairwise ordered
RECURSIVE SortedDesc(_)
SortedDesc(keys) ==
    IF keys = {} THEN <<>>
    ELSE LET top == CHOOSE a \in keys :
                        \A b \in keys \ {a} : TupleGt(a, b) = "True"
         IN  <<top>> \o SortedDesc(keys \ {top})

\* lines 147-153: the scan over the keys in descending order; log records the
\* compatibility test and, when it is reached, the comparison of line 150
RECURSIVE Scan(_, _, _, _)
Scan(order, items, normreq, log) ==
    IF order = <<>> THEN [kind |-> "LookupError", value |-> <<>>, log |-> log]
    ELSE
    LET normcand == Head(order)
        compat   == IsVersionCompatibleWithSpec(normcand, normreq)
        cmp      == TupleGt(normcand, normreq)
        item     == CHOOSE it \in {items[i] : i \in 1..Len(items)} : it.key = normcand
    IN  IF compat = "AssertionError"
        THEN [kind |-> "AssertionError", value |-> <<>>,
              log |-> Append(log, [key |-> normcand, compat |-> compat, cmp |-> "none"])]
        ELSE IF compat = "True"
        THEN [kind |-> "return", value |-> item.cand,
              log |-> Append(log, [key |-> normcand, compat |-> compat, cmp |-> "none"])]
        ELSE IF cmp = "TypeError"
        THEN [kind |-> "TypeError", value |-> <<>>,
              log |-> Append(log, [key |-> normcand, compat |-> compat, cmp |-> cmp])]
        ELSE IF cmp = "True"
        THEN Scan(Tail(order), items, normreq,
                  Append(log, [key |-> normcand, compat |-> compat, cmp |-> cmp]))
        ELSE [kind |-> "LookupError", value |-> <<>>,
              log |-> Append(log, [key |-> normcand, compat |-> compat, cmp |-> cmp])]

\* _match_version with the leading 1 removed from the request only
MatchVersion_PrefixRequestOnly(v, cands, req) ==
    LET is_graal == IsGraal(v)
        normreq  == NormalizeVersion(req, ~is_graal)
        items    == IF normreq.err # "none" THEN <<>>
                    ELSE NormCands(cands, FALSE, <<>>)
        keys     == {items[i].key : i \in 1..Len(items)}
        result   ==
            IF normreq.err # "none"
            THEN [kind |-> "ValueError", value |-> <<>>, log |-> <<>>]
            ELSE IF SortRaises(keys)
            THEN [kind |-> "TypeError", value |-> <<>>, log |-> <<>>]
            ELSE Scan(SortedDesc(keys), items, normreq.key, <<>>)
    IN  [kind |-> result.kind, value |-> result.value, log |-> result.log,
         is_graal |-> is_graal, normreq |-> normreq, normcands |-> items]

\* _match_version(vendor, candidates, requested): kind is "return" with the
\* matched candidate in value, or the exception raised; is_graal, normreq and
\* normcands are the locals of the call, log what the scan tested
MatchVersion(v, cands, req) ==
    LET is_graal == IsGraal(v)
        normreq  == NormalizeVersion(req, ~is_graal)
        items    == IF normreq.err # "none" THEN <<>>
                    ELSE NormCands(cands, ~is_graal, <<>>)
        keys     == {items[i].key : i \in 1..Len(items)}
        result   ==
            IF normreq.err # "none"
            THEN [kind |-> "ValueError", value |-> <<>>, log |-> <<>>]
            ELSE IF SortRaises(keys)
            THEN [kind |-> "TypeError", value |-> <<>>, log |-> <<>>]
            ELSE Scan(SortedDesc(keys), items, normreq.key, <<>>)
    IN  [kind |-> result.kind, value |-> result.value, log |-> result.log,
         is_graal |-> is_graal, normreq |-> normreq, normcands |-> items]

----------------------------------------------------------------------------
(* Inputs of the version matcher *)

\* the decimal digits of a natural
RECURSIVE Decimal(_)
Decimal(n) ==
    IF n < 10 THEN <<DigitChars[n + 1]>>
    ELSE Decimal(n \div 10) \o <<DigitChars[(n % 10) + 1]>>

\* the elements of a key written with separator sep
RECURSIVE Join(_, _)
Join(key, sep) ==
    IF key = <<>> THEN <<>>
    ELSE IF Len(key) = 1 THEN Decimal(key[1])
    ELSE Decimal(key[1]) \o <<sep>> \o Join(Tail(key), sep)

Dotted(key) == Join(key, ".")

Dashed(key) == Join(key, "-")

OpenEnded(key) == Dotted(key) \o <<"+">>

\* the longest candidate list drawn over the systematic version strings
MaxCands == 2

NarrowNums == {0, 1, 2}

NarrowKeys ==
    {<<a>> : a \in NarrowNums} \cup {<<a, b>> : a \in NarrowNums, b \in NarrowNums}

\* version strings of the examples of the documentation
ExampleKeys ==
    {<<11>>, <<11, 0>>, <<11, 0, 2>>, <<12, 0, 0>>, <<11, 0, 5>>, <<11, 2, 0>>,
     <<10, 9, 9>>, <<1, 8, 0>>, <<8, 0>>, <<8>>, <<1, 8>>}

OddStrings == {<<>>, <<"2", "+">>, <<"2", ".", "x">>}

NarrowCands == {Dotted(k) : k \in NarrowKeys} \cup OddStrings

ExampleCands ==
    {Dotted(k) : k \in ExampleKeys}
        \cup {Dashed(<<11, 0, 2>>), <<"1", "1", ".", ".", "0">>, <<"+", "1", "1">>}

NarrowRequests ==
    {Dotted(k) : k \in NarrowKeys} \cup {OpenEnded(k) : k \in NarrowKeys}
        \cup {<<>>, <<"+">>, <<"x">>}

ExampleRequests ==
    {Dotted(k) : k \in {<<11>>, <<11, 0>>, <<8>>, <<8, 0>>, <<1, 8>>, <<1, 8, 0>>}}
        \cup {OpenEnded(k) : k \in {<<11>>, <<11, 0>>, <<8>>, <<1, 8>>}}

ExampleLists ==
    {<<Dotted(<<11>>), Dotted(<<11, 0>>)>>,
     <<Dotted(<<11, 0>>), Dotted(<<11>>)>>,
     <<Dotted(<<11, 0, 1>>), Dotted(<<11, 0, 9>>), Dotted(<<11, 0, 10>>)>>,
     <<Dotted(<<11, 0, 10>>), Dotted(<<11, 0, 9>>), Dotted(<<11, 0, 1>>)>>}

SeqsUpTo(S, n) == UNION {[1..k -> S] : k \in 0..n}

Vendors ==
    {<<"t", "e", "m", "u", "r", "i", "n">>,
     <<"G", "r", "a", "a", "l", "V", "M", "-", "c", "e">>}

----------------------------------------------------------------------------
(* The version matcher as a state machine *)

NoOutcome ==
    [kind |-> "none", value |-> <<>>, log |-> <<>>, is_graal |-> FALSE,
     normreq |-> [err |-> "none", key |-> <<>>], normcands |-> <<>>]

MatchStart ==
    /\ vendor \in Vendors
    /\ \/ /\ candidates \in SeqsUpTo(NarrowCands, MaxCands)
          /\ requested \in NarrowRequests
       \/ /\ candidates \in {<<c>> : c \in ExampleCands} \cup ExampleLists
          /\ requested \in ExampleRequests
    /\ mpc = "ready"
    /\ matched = NoOutcome

MatchIdle ==
    /\ vendor = <<>>
    /\ candidates = <<>>
    /\ requested = <<>>
    /\ mpc = "off"
    /\ matched = NoOutcome

\* the call _match_version(vendor, candidates, requested)
CallMatchVersion ==
    /\ mpc = "ready"
    /\ matched' = MatchVersion(vendor, candidates, requested)
    /\ mpc' = "done"
    /\ UNCHANGED <<vendor, candidates, requested, notMatch>>

----------------------------------------------------------------------------
(* find_home (src/src/cjdk/_jdk.py) *)

\* the default of the _recursion_depth parameter
DefaultDepth == 2

\* the most entries (directories and files) the tree holds below its root
MaxEntries == 6

DirNames == {"bin", "Contents", "Home", "jdk"}

FileNames == {"java", "java.exe"}

\* Path.is_dir()
IsDir(p) == p \in dirs

\* Path.is_file()
IsFile(p) == p \in files

\* _looks_like_java_home(path)
LooksLikeJavaHome(p) ==
    IF ~IsDir(Append(p, "bin")) THEN FALSE
    ELSE IF ~(\/ IsFile(p \o <<"bin", "java">>)
              \/ IsFile(p \o <<"bin", "java.exe">>)) THEN FALSE
    ELSE TRUE

\* the entries of directory p that are directories
SubDirs(p) == {d \in dirs : Len(d) = Len(p) + 1 /\ SubSeq(d, 1, Len(p)) = p}

NoPath == <<"None">>

\* _contains_single_subdir(path)
ContainsSingleSubdir(p) ==
    IF Cardinality(SubDirs(p)) = 1 THEN CHOOSE d \in SubDirs(p) : TRUE ELSE NoPath

\* the budget test with the bound off by one
BudgetLeft_OffByOne(depth) == depth >= 0

\* whether an invocation with this budget looks for a single subdirectory
BudgetLeft(depth) == depth > 0

\* one invocation of find_home(path, _recursion_depth): what it does next,
\* and the tests it makes before
FindHomeBody(p, depth) ==
    LET macos_extra == <<"Contents", "Home">>
        t1 == [path |-> p, test |-> "home", found |-> LooksLikeJavaHome(p)]
        t2 == [path |-> p, test |-> "macos", found |-> LooksLikeJavaHome(p \o macos_extra)]
        subdir == ContainsSingleSubdir(p)
        t3 == [path |-> p, test |-> "subdir", found |-> subdir # NoPath]
    IN  IF t1.found
        THEN [do |-> "return", path |-> p, tests |-> <<t1>>]
        ELSE IF t2.found
        THEN [do |-> "return", path |-> p \o macos_extra, tests |-> <<t1, t2>>]
        ELSE IF BudgetLeft(depth)
        THEN IF subdir # NoPath
             THEN [do |-> "recurse", path |-> subdir, tests |-> <<t1, t2, t3>>]
             ELSE [do |-> "raise", path |-> p, tests |-> <<t1, t2, t3>>]
        ELSE [do |-> "raise", path |-> p, tests |-> <<t1, t2>>]

Entries == Cardinality(dirs) - 1 + Cardinality(files)

\* the archive is extracted: a directory appears
Mkdir ==
    /\ hpc = "idle"
    /\ Entries < MaxEntries
    /\ \E parent \in dirs : \E name \in DirNames :
           /\ Append(parent, name) \notin dirs \cup files
           /\ dirs' = dirs \cup {Append(parent, name)}
    /\ UNCHANGED <<files, hpc, path, recursion_depth, home, probes, notHome>>

\* the archive is extracted: a regular file appears (in a directory named
\* bin: find_home looks at no other file)
Touch ==
    /\ hpc = "idle"
    /\ Entries < MaxEntries
    /\ \E parent \in dirs : \E name \in FileNames :
           /\ Len(parent) > 0 /\ parent[Len(parent)] = "bin"
           /\ Append(parent, name) \notin dirs \cup files
           /\ files' = files \cup {Append(parent, name)}
    /\ UNCHANGED <<dirs, hpc, path, recursion_depth, home, probes, notHome>>

\* find_home(root) is called with the default budget
CallFindHome ==
    /\ hpc = "idle"
    /\ hpc' = "running"
    /\ path' = <<>>
    /\ recursion_depth' = DefaultDepth
    /\ UNCHANGED <<dirs, files, home, probes, notHome>>

\* the running invocation of find_home executes: it returns, raises, or calls
\* find_home on the single subdirectory with the budget decremented
FindHome ==
    /\ hpc = "running"
    /\ LET b == FindHomeBody(path, recursion_depth)
       IN  /\ probes' = probes \o b.tests
           /\ IF b.do = "return"
              THEN /\ hpc' = "returned"
                   /\ home' = b.path
                   /\ UNCHANGED <<path, recursion_depth>>
              ELSE IF b.do = "recurse"
              THEN /\ path' = b.path
                   /\ recursion_depth' = recursion_depth - 1
                   /\ UNCHANGED <<hpc, home>>
              ELSE /\ hpc' = "raised"
                   /\ UNCHANGED <<path, recursion_depth, home>>
    /\ UNCHANGED <<dirs, files, notHome>>

HomeStart ==
    /\ dirs = {<<>>}
    /\ files = {}
    /\ hpc = "idle"
    /\ path = <<>>
    /\ recursion_depth = DefaultDepth
    /\ home = NoPath
    /\ probes = <<>>

HomeIdle ==
    /\ dirs = {<<>>}
    /\ files = {}
    /\ hpc = "off"
    /\ path = <<>>
    /\ recursion_depth = DefaultDepth
    /\ home = NoPath
    /\ probes = <<>>

----------------------------------------------------------------------------
(* available_jdks, resolve_jdk_version, jdk_url *)

\* Unicode code points of the characters of the model, for str comparison
CodeTable ==
    [c \in {"+", "-", ".", "@"} |->
        IF c = "+" THEN 43 ELSE IF c = "-" THEN 45 ELSE IF c = "." THEN 46 ELSE 64]
    @@ [c \in {DigitChars[i] : i \in 1..10} |-> 48 + DigitTable[c]]
    @@ [c \in {UpperChars[i] : i \in 1..26} |->
           64 + (CHOOSE i \in 1..26 : UpperChars[i] = c)]
    @@ [c \in {LowerChars[i] : i \in 1..26} |->
           96 + (CHOOSE i \in 1..26 : LowerChars[i] = c)]

\* a < b on str
StrLt(a, b) ==
    LET i == FirstDiff(a, b)
    IN  IF i = 0 THEN Len(a) < Len(b) ELSE CodeTable[a[i]] < CodeTable[b[i]]

\* a < b on tuples (vendor, version) of str
PairLt(a, b) == IF a[1] # b[1] THEN StrLt(a[1], b[1]) ELSE StrLt(a[2], b[2])

JdkPrefix == <<"j", "d", "k", "@">>

\* str.removeprefix("jdk@") applied as long as the prefix is there
RECURSIVE RemovePrefix_All(_)
RemovePrefix_All(v) ==
    IF Len(v) >= 4 /\ SubSeq(v, 1, 4) = JdkPrefix
    THEN RemovePrefix_All(SubSeq(v, 5, Len(v)))
    ELSE v

\* vendor.removeprefix("jdk@")
RemovePrefix(v) ==
    IF Len(v) >= 4 /\ SubSeq(v, 1, 4) = JdkPrefix THEN SubSeq(v, 5, Len(v)) ELSE v

\* f"jdk@{conf.vendor}"
WithJdkPrefix(v) == JdkPrefix \o v

\* sorted(pairs) of a collection given by its distinct pairs and how often
\* each occurs
RECURSIVE SortedPairs(_, _)
SortedPairs(pairs, count) ==
    IF pairs = {} THEN <<>>
    ELSE LET min == CHOOSE a \in pairs : \A b \in pairs \ {a} : PairLt(a, b)
         IN  [i \in 1..count[min] |-> min] \o SortedPairs(pairs \ {min}, count)

\* available_jdks(index, conf): the sorted list of (vendor, version)
AvailableJdks(ix, cf) ==
    IF cf.os \notin DOMAIN ix \/ cf.arch \notin DOMAIN ix[cf.os]
    THEN [kind |-> "return", value |-> <<>>]
    ELSE LET plat    == ix[cf.os][cf.arch]
             entries == {<<vk, ver>> : vk \in DOMAIN plat, ver \in UNION {DOMAIN plat[k] : k \in DOMAIN plat}}
             have    == {e \in entries : e[2] \in DOMAIN plat[e[1]]}
             pairs   == {<<RemovePrefix(e[1]), e[2]>> : e \in have}
             count   == [q \in pairs |->
                            Cardinality({e \in have : <<RemovePrefix(e[1]), e[2]>> = q})]
         IN  [kind |-> "return", value |-> SortedPairs(pairs, count)]

\* [i[1] for i in jdks if i[0] == conf.vendor]
RECURSIVE VersionsOf(_, _)
VersionsOf(list, v) ==
    IF list = <<>> THEN <<>>
    ELSE (IF Head(list)[1] = v THEN <<Head(list)[2]>> ELSE <<>>) \o VersionsOf(Tail(list), v)

\* lines 66-75 of resolve_jdk_version, given the versions of the vendor and the
\* outcome m of _match_version on them
ResolvedOutcome(versions, m) ==
    IF versions = <<>>
    THEN [kind |-> "KeyError", value |-> <<>>, msg |-> "No vendor JDK is available"]
    ELSE IF m.kind = "LookupError"
    THEN [kind |-> "LookupError", value |-> <<>>, msg |-> "No matching version"]
    ELSE IF m.kind # "return"
    THEN [kind |-> m.kind, value |-> <<>>, msg |-> "version matching"]
    ELSE IF m.value = <<>>
    THEN [kind |-> "KeyError", value |-> <<>>, msg |-> "No JDK matching version"]
    ELSE [kind |-> "return", value |-> m.value, msg |-> ""]

\* resolve_jdk_version(index, conf): [kind, value, msg]; msg tells the raise
\* statement an exception comes from
ResolveJdkVersion(ix, cf) ==
    LET versions == VersionsOf(AvailableJdks(ix, cf).value, cf.vendor)
    IN  ResolvedOutcome(versions, MatchVersion(cf.vendor, versions, cf.version))

\* line 88 of jdk_url, given the outcome r of resolve_jdk_version
LookupUrl(ix, cf, r) ==
    LET k == WithJdkPrefix(cf.vendor)
    IN  IF r.kind # "return" THEN r
        ELSE IF \/ cf.os \notin DOMAIN ix
                \/ cf.arch \notin DOMAIN ix[cf.os]
                \/ k \notin DOMAIN ix[cf.os][cf.arch]
                \/ r.value \notin DOMAIN ix[cf.os][cf.arch][k]
        THEN [kind |-> "KeyError", value |-> <<>>, msg |-> "index lookup"]
        ELSE [kind |-> "return", value |-> ix[cf.os][cf.arch][k][r.value], msg |-> ""]

\* jdk_url(index, conf)
JdkUrl(ix, cf) == LookupUrl(ix, cf, ResolveJdkVersion(ix, cf))

\* the most keys (of all four levels together) the index holds
MaxIndexKeys == 7

EmptyMap == [x \in {} |-> x]

OsNames == {"linux", "darwin"}

ArchNames == {"amd64", "arm64"}

Zulu == <<"z", "u", "l", "u">>

VendorKeys == {WithJdkPrefix(Zulu), WithJdkPrefix(WithJdkPrefix(Zulu)), Zulu}

IndexVersions == {Dotted(<<8>>), Dotted(<<1, 8>>), Dotted(<<11>>), <<>>}

ConfVendors == {Zulu, WithJdkPrefix(Zulu), <<"G", "r", "a", "a", "l", "V", "M">>}

ConfVersions == {Dotted(<<8>>), OpenEnded(<<11>>), Dotted(<<17>>), <<"+">>}

\* the url of an entry: one per entry, so that no two entries share a url
UrlOf(o, a, vk, ver) == <<"tgz+https", o, a, vk, ver>>

ArchPaths == {<<o, a>> : o \in DOMAIN index, a \in ArchNames}

IndexKeys ==
    Cardinality(DOMAIN index)
    + Cardinality({q \in ArchPaths : q[2] \in DOMAIN index[q[1]]})
    + Cardinality(UNION {{<<q, vk>> : vk \in DOMAIN index[q[1]][q[2]]} :
          q \in {q \in ArchPaths : q[2] \in DOMAIN index[q[1]]}})
    + Cardinality(UNION {UNION {{<<q, vk, ver>> : ver \in DOMAIN index[q[1]][q[2]][vk]} :
          vk \in DOMAIN index[q[1]][q[2]]} :
          q \in {q \in ArchPaths : q[2] \in DOMAIN index[q[1]]}})

\* the index document gains an os section
AddOs ==
    /\ ipc = "idle"
    /\ IndexKeys < MaxIndexKeys
    /\ \E o \in OsNames \ DOMAIN index : index' = index @@ (o :> EmptyMap)
    /\ UNCHANGED <<conf, ipc, jdks, resolved, url, notIndex>>

\* an os section gains an arch section
AddArch ==
    /\ ipc = "idle"
    /\ IndexKeys < MaxIndexKeys
    /\ \E o \in DOMAIN index : \E a \in ArchNames \ DOMAIN index[o] :
           index' = [index EXCEPT ![o] = @ @@ (a :> EmptyMap)]
    /\ UNCHANGED <<conf, ipc, jdks, resolved, url, notIndex>>

\* an arch section gains a vendor
AddVendor ==
    /\ ipc = "idle"
    /\ IndexKeys < MaxIndexKeys
    /\ \E o \in DOMAIN index : \E a \in DOMAIN index[o] :
           \E vk \in VendorKeys \ DOMAIN index[o][a] :
               index' = [index EXCEPT ![o][a] = @ @@ (vk :> EmptyMap)]
    /\ UNCHANGED <<conf, ipc, jdks, resolved, url, notIndex>>

\* a vendor gains a version with its url
AddVersion ==
    /\ ipc = "idle"
    /\ IndexKeys < MaxIndexKeys
    /\ \E o \in DOMAIN index : \E a \in DOMAIN index[o] : \E vk \in DOMAIN index[o][a] :
           \E ver \in IndexVersions \ DOMAIN index[o][a][vk] :
               index' = [index EXCEPT ![o][a][vk] = @ @@ (ver :> UrlOf(o, a, vk, ver))]
    /\ UNCHANGED <<conf, ipc, jdks, resolved, url, notIndex>>

\* the call available_jdks(index, conf)
CallAvailableJdks ==
    /\ ipc = "idle"
    /\ jdks' = AvailableJdks(index, conf)
    /\ ipc' = "listed"
    /\ UNCHANGED <<index, conf, resolved, url, notIndex>>

\* the call resolve_jdk_version(index, conf)
CallResolveJdkVersion ==
    /\ ipc = "listed"
    /\ resolved' = ResolveJdkVersion(index, conf)
    /\ ipc' = "resolved"
    /\ UNCHANGED <<index, conf, jdks, url, notIndex>>

\* the call jdk_url(index, conf)
CallJdkUrl ==
    /\ ipc = "resolved"
    /\ url' = JdkUrl(index, conf)
    /\ ipc' = "located"
    /\ UNCHANGED <<index, conf, jdks, resolved, notIndex>>

NotCalled == [kind |-> "none", value |-> <<>>, msg |-> ""]

IndexStart ==
    /\ index = EmptyMap
    /\ conf \in [os : {"linux"}, arch : {"amd64"}, vendor : ConfVendors, version : ConfVersions]
    /\ ipc = "idle"
    /\ jdks = [kind |-> "none", value |-> <<>>]
    /\ resolved = NotCalled
    /\ url = NotCalled

IndexIdle ==
    /\ index = EmptyMap
    /\ conf = [os |-> "", arch |-> "", vendor |-> <<>>, version |-> <<>>]
    /\ ipc = "off"
    /\ jdks = [kind |-> "none", value |-> <<>>]
    /\ resolved = NotCalled
    /\ url = NotCalled

----------------------------------------------------------------------------
(* jdk_index, _cached_index, _fetch_index, _read_index *)

\* the most seconds the clock runs
MaxTime == 2

\* the most calls of jdk_index
MaxCalls == 2

Linux == <<"l", "i", "n", "u", "x">>

Darwin == <<"d", "a", "r", "w", "i", "n">>

\* the top-level keys of the upstream document, in the order it lists them
KeyOrders == {<<Linux, Darwin>>, <<Darwin, Linux>>, <<Linux>>}

\* what the server answers to a GET of the index url: whether it can be
\* reached at all, the status of the final response, whether the body is
\* 7-bit clean, whether it is well-formed JSON, and the keys of its document
Responses ==
    {r \in [up : BOOLEAN, status : {200, 304, 404}, ascii : BOOLEAN,
            wellformed : BOOLEAN, keys : KeyOrders] :
        /\ ~r.up => (r.status = 200 /\ r.ascii /\ r.wellformed)
        /\ r.status = 304 => (r.ascii /\ r.wellformed)
        /\ r.status = 404 => (r.ascii \/ r.wellformed)
        /\ ~(r.up /\ r.status = 200 /\ r.ascii /\ r.wellformed) => r.keys = <<Linux>>}

Configurations ==
    [scheme : {"https", "http"}, allow_insecure_for_testing : BOOLEAN, index_ttl : 0..2]

NoFile == [exists |-> FALSE, body |-> <<>>, mtime |-> 0]

\* Response.raise_for_status() raises HTTPError for 4xx and 5xx
RaisesForStatus(status) == 400 <= status /\ status < 600

\* response.json(): the document as a dict, here the set of its keys
Json(response) == {response.keys[i] : i \in 1..Len(response.keys)}

\* json.dump(index, outfile, indent=2, sort_keys=True): the keys in str order
RECURSIVE Dump(_)
Dump(doc) ==
    IF doc = {} THEN <<>>
    ELSE LET min == CHOOSE k \in doc : \A o \in doc \ {k} : StrLt(k, o)
         IN  <<min>> \o Dump(doc \ {min})

\* _read_index(path): json.load of the file
ReadIndex(body) == {body[i] : i \in 1..Len(body)}

FetchOrder == <<"scheme", "get", "status", "ascii", "json", "write">>

\* _fetch_index that opens the destination file before it validates the body
FetchIndex_OpenFirst(cf, response) ==
    LET check == IF cf.allow_insecure_for_testing THEN <<>> ELSE <<"scheme">>
        fail(kind, steps, opened) ==
            [kind |-> kind, steps |-> check \o steps, gets |-> 1,
             dest |-> [opened |-> opened, body |-> <<>>]]
    IN  IF ~cf.allow_insecure_for_testing /\ cf.scheme # "https"
        THEN [kind |-> "ValueError", steps |-> <<"scheme">>, gets |-> 0,
              dest |-> [opened |-> FALSE, body |-> <<>>]]
        ELSE IF ~response.up THEN fail("ConnectionError", <<"get">>, FALSE)
        ELSE IF RaisesForStatus(response.status)
        THEN fail("HTTPError", <<"get", "status">>, FALSE)
        ELSE IF ~response.ascii
        THEN fail("ValueError", <<"get", "status", "write", "ascii">>, TRUE)
        ELSE IF ~response.wellformed
        THEN fail("JSONDecodeError", <<"get", "status", "write", "ascii", "json">>, TRUE)
        ELSE [kind |-> "return",
              steps |-> check \o <<"get", "status", "write", "ascii", "json">>,
              gets |-> 1,
              dest |-> [opened |-> TRUE, body |-> Dump(Json(response))]]

\* _fetch_index(dest, conf): the outcome, the steps taken in order, the number
\* of GET requests issued and what became of the file dest
FetchIndex(cf, response) ==
    LET check == IF cf.allow_insecure_for_testing THEN <<>> ELSE <<"scheme">>
        fail(kind, steps) ==
            [kind |-> kind, steps |-> check \o steps, gets |-> 1,
             dest |-> [opened |-> FALSE, body |-> <<>>]]
    IN  IF ~cf.allow_insecure_for_testing /\ cf.scheme # "https"
        THEN [kind |-> "ValueError", steps |-> <<"scheme">>, gets |-> 0,
              dest |-> [opened |-> FALSE, body |-> <<>>]]
        ELSE IF ~response.up THEN fail("ConnectionError", <<"get">>)
        ELSE IF RaisesForStatus(response.status)
        THEN fail("HTTPError", <<"get", "status">>)
        ELSE IF ~response.ascii
        THEN fail("ValueError", <<"get", "status", "ascii">>)
        ELSE IF ~response.wellformed
        THEN fail("JSONDecodeError", <<"get", "status", "ascii", "json">>)
        ELSE [kind |-> "return",
              steps |-> check \o <<"get", "status", "ascii", "json", "write">>,
              gets |-> 1,
              dest |-> [opened |-> TRUE, body |-> Dump(Json(response))]]

\* the file is there and younger than ttl
Fresh(file, ttl, time) == file.exists /\ time - file.mtime < ttl

\* _cache.atomic_file(key, filename, fetch, ttl, cache_dir): the path of the
\* cached file if it is fresh; otherwise fetch(dest) fills a new file that
\* replaces the cached one once fetch has returned
AtomicFile(file, fetched, ttl, time) ==
    IF Fresh(file, ttl, time)
    THEN [kind |-> "return", hit |-> TRUE, steps |-> <<>>, gets |-> 0,
          dest |-> [opened |-> FALSE, body |-> <<>>], slot |-> file]
    ELSE [kind |-> fetched.kind, hit |-> FALSE, steps |-> fetched.steps,
          gets |-> fetched.gets, dest |-> fetched.dest,
          slot |-> IF fetched.kind = "return"
                   THEN [exists |-> TRUE, body |-> fetched.dest.body, mtime |-> time]
                   ELSE file]

\* _cached_index that asks for a file of age zero
CachedIndex_NoTtl(cf, file, response, time) ==
    AtomicFile(file, FetchIndex(cf, response), 0, time)

\* _cached_index(conf)
CachedIndex(cf, file, response, time) ==
    AtomicFile(file, FetchIndex(cf, response), cf.index_ttl, time)

\* a second passes
Tick ==
    /\ cpc = "ready"
    /\ now < MaxTime
    /\ now' = now + 1
    /\ UNCHANGED <<cacheConf, slot, gets, calls, cpc, notCache>>

\* the call jdk_index(conf), while the server would answer a GET of the index
\* url with upstream
JdkIndex ==
    /\ cpc = "ready"
    /\ Len(calls) < MaxCalls
    /\ \E upstream \in Responses :
           LET c == CachedIndex(cacheConf, slot, upstream, now)
           IN  /\ slot' = c.slot
               /\ gets' = gets + c.gets
               /\ calls' = Append(calls,
                      [at |-> now, response |-> upstream, kind |-> c.kind, hit |-> c.hit,
                       steps |-> c.steps, gets |-> c.gets, dest |-> c.dest,
                       before |-> slot, after |-> c.slot,
                       value |-> IF c.kind = "return" THEN ReadIndex(c.slot.body) ELSE {}])
    /\ UNCHANGED <<cacheConf, now, cpc, notCache>>

CacheStart ==
    /\ cacheConf \in Configurations
    /\ slot = NoFile
    /\ now = 0
    /\ gets = 0
    /\ calls = <<>>
    /\ cpc = "ready"

CacheIdle ==
    /\ cacheConf = [scheme |-> "", allow_insecure_for_testing |-> FALSE, index_ttl |-> 0]
    /\ slot = NoFile
    /\ now = 0
    /\ gets = 0
    /\ calls = <<>>
    /\ cpc = "off"

----------------------------------------------------------------------------
(* Specifications *)

InitMatch == MatchStart /\ HomeIdle /\ IndexIdle /\ CacheIdle

NextMatch == CallMatchVersion

SpecMatch == InitMatch /\ [][NextMatch]_vars

InitHome == HomeStart /\ MatchIdle /\ IndexIdle /\ CacheIdle

NextHome == Mkdir \/ Touch \/ CallFindHome \/ FindHome

SpecHome == InitHome /\ [][NextHome]_vars

InitIndex == IndexStart /\ MatchIdle /\ HomeIdle /\ CacheIdle

NextIndex ==
    \/ AddOs \/ AddArch \/ AddVendor \/ AddVersion
    \/ CallAvailableJdks \/ CallResolveJdkVersion \/ CallJdkUrl

SpecIndex == InitIndex /\ [][NextIndex]_vars

InitCache == CacheStart /\ MatchIdle /\ HomeIdle /\ IndexIdle

NextCache == Tick \/ JdkIndex

SpecCache == InitCache /\ [][NextCache]_vars

----------------------------------------------------------------------------
(* Claims about find_home *)

MacosHome(d) == d \o <<"Contents", "Home">>

\* the directory d has a subdirectory bin that holds a file java or java.exe
IsHome(d) ==
    /\ Append(d, "bin") \in dirs
    /\ \E f \in files : f \in {d \o <<"bin", "java">>, d \o <<"bin", "java.exe">>}

Qualifies(d) == IsHome(d) \/ IsHome(MacosHome(d))

HasOnlyChild(d) == Cardinality(SubDirs(d)) = 1

OnlyChild(d) == CHOOSE c \in SubDirs(d) : TRUE

\* the root, its only child and its only grandchild, as far as they exist
Chain ==
    LET d0 == <<>>
        d1 == OnlyChild(d0)
        d2 == OnlyChild(d1)
    IN  IF ~HasOnlyChild(d0) THEN <<d0>>
        ELSE IF ~HasOnlyChild(d1) THEN <<d0, d1>>
        ELSE <<d0, d1, d2>>

HomeProbes == {i \in 1..Len(probes) : probes[i].test = "home"}

\* the tests on one directory come in the order home, macos, subdir, each made
\* only after the one before failed, and a directory is entered only as the
\* single subdirectory found by the test before
ProbesInOrder ==
    \A i \in 1..Len(probes) :
        /\ probes[i].test = "home" =>
               \/ i = 1 /\ probes[i].path = <<>>
               \/ /\ i > 1
                  /\ probes[i - 1].test = "subdir"
                  /\ probes[i - 1].found
                  /\ SubDirs(probes[i - 1].path) = {probes[i].path}
        /\ probes[i].test = "macos" =>
               /\ i > 1
               /\ probes[i - 1] = [path |-> probes[i].path, test |-> "home", found |-> FALSE]
        /\ probes[i].test = "subdir" =>
               /\ i > 1
               /\ probes[i - 1] = [path |-> probes[i].path, test |-> "macos", found |-> FALSE]
               /\ Cardinality(HomeProbes \cap 1..i) <= 2

\* C5: find_home(path) with the default budget 2 terminates; at each directory
\* of the chain path, only child, only grandchild it tests IsHome, then
\* Contents/Home, then descends only into a single subdirectory while budget
\* remains; it returns d (or d/Contents/Home) exactly when d is the first
\* directory of the chain that is a Java home or whose Contents/Home is one,
\* the returned path satisfies IsHome, and in every other case (a home three
\* levels down, no or several subdirectories, no budget) it raises.
C5_FindHome ==
    LET chain == Chain
        n     == Cardinality(HomeProbes)
    IN  /\ hpc = "returned" =>
               /\ \E i \in 1..Len(chain) :
                      /\ Qualifies(chain[i])
                      /\ \A j \in 1..(i - 1) : ~Qualifies(chain[j])
                      /\ home = IF IsHome(chain[i]) THEN chain[i] ELSE MacosHome(chain[i])
               /\ IsHome(home)
        /\ hpc = "raised" => \A i \in 1..Len(chain) : ~Qualifies(chain[i])
        /\ hpc = "running" =>
               /\ n <= 2
               /\ n + 1 <= Len(chain)
               /\ path = chain[n + 1]
               /\ recursion_depth + n = 2
        /\ n <= 3
        /\ ProbesInOrder

\* a Java home below three single-child directories: the budget runs out
C5_Witness ==
    /\ hpc = "raised"
    /\ Len(Chain) = 3
    /\ HasOnlyChild(Chain[3])
    /\ IsHome(OnlyChild(Chain[3]))
    /\ Cardinality(HomeProbes) = 3

----------------------------------------------------------------------------
(* Claims about the index lookups *)

\* the index has no section for the configured os and arch
PlatformAbsent ==
    \/ conf.os \notin DOMAIN index
    \/ conf.arch \notin DOMAIN index[conf.os]

\* the vendor sections of the configured platform
Platform == IF PlatformAbsent THEN EmptyMap ELSE index[conf.os][conf.arch]

HasJdkPrefix(vk) == Len(vk) >= 4 /\ \A i \in 1..4 : vk[i] = JdkPrefix[i]

\* the vendor a key of the index stands for
VendorOfKey(vk) ==
    IF HasJdkPrefix(vk) THEN [i \in 1..(Len(vk) - 4) |-> vk[i + 4]] ELSE vk

\* the versions the index lists for the configured vendor and platform
VendorVersions ==
    UNION {DOMAIN Platform[vk] : vk \in {k \in DOMAIN Platform : VendorOfKey(k) = conf.vendor}}

\* the versions of the vendor that satisfy the requested specifier
SatisfyingVersions ==
    LET rp == ~IsGraal(conf.vendor)
        req == NormalizeVersion(conf.version, rp)
    IN  {v \in VendorVersions :
            /\ NormalizeVersion(v, rp).err = "none"
            /\ IsVersionCompatibleWithSpec(NormalizeVersion(v, rp).key, req.key) = "True"}

\* the exception classes that are LookupError or derive from it
LookupErrors == {"LookupError", "KeyError", "IndexError"}

\* the outcome of resolve_jdk_version is known
Resolved == ipc \in {"resolved", "located"}

\* C6: when the index has no entry for the configured os, or none for the
\* configured arch under it, available_jdks returns an empty list and raises
\* nothing, and resolve_jdk_version fails with the no-match error; the failure
\* "no version at all for the vendor on this platform" is distinguishable from
\* "versions exist but none satisfies the specifier", and both are reported
\* as the same error kind, the KeyError that lines 67 and 72 raise.
C6_SameNoMatchKind ==
    /\ (ipc \in {"listed", "resolved", "located"} /\ PlatformAbsent) =>
           jdks = [kind |-> "return", value |-> <<>>]
    /\ Resolved =>
           /\ PlatformAbsent => resolved.kind = "KeyError"
           /\ (VendorVersions = {} /\ resolved.kind = "KeyError") =>
                  resolved.msg = "No vendor JDK is available"
           /\ (VendorVersions # {} /\ resolved.kind = "KeyError") =>
                  resolved.msg # "No vendor JDK is available"
           /\ (VendorVersions = {} \/ SatisfyingVersions = {}) =>
                  resolved.kind = "KeyError"

\* C6, without the sameness of the kinds: platform absence gives an empty
\* list and the KeyError of line 67; the vendor has no version exactly when
\* that KeyError is raised; versions none of which satisfies the specifier
\* give the LookupError of line 153; both classes are LookupErrors.
C6_PlatformAbsence ==
    /\ (ipc \in {"listed", "resolved", "located"} /\ PlatformAbsent) =>
           jdks = [kind |-> "return", value |-> <<>>]
    /\ Resolved =>
           /\ PlatformAbsent => resolved.kind = "KeyError"
           /\ VendorVersions = {} <=>
                  (resolved.kind = "KeyError" /\ resolved.msg = "No vendor JDK is available")
           /\ (VendorVersions # {} /\ SatisfyingVersions = {}) =>
                  (resolved.kind = "LookupError" /\ resolved.msg = "No matching version")
           /\ (VendorVersions = {} \/ SatisfyingVersions = {}) =>
                  resolved.kind \in LookupErrors

\* the os section is there, the arch section is not
C6_Witness ==
    /\ ipc = "resolved"
    /\ conf.os \in DOMAIN index
    /\ conf.arch \notin DOMAIN index[conf.os]
    /\ DOMAIN index[conf.os] # {}
    /\ jdks.value = <<>>
    /\ resolved.kind = "KeyError"

\* versions exist for the vendor and none satisfies the specifier
C6_NoneSatisfies ==
    /\ ipc = "resolved"
    /\ VendorVersions # {}
    /\ SatisfyingVersions = {}
    /\ resolved.kind = "LookupError"

AllKeysPrefixed ==
    \A o \in DOMAIN index : \A a \in DOMAIN index[o] :
        \A vk \in DOMAIN index[o][a] : HasJdkPrefix(vk)

\* C8: in an index whose vendor keys all carry the "jdk@" prefix, whenever
\* resolve_jdk_version returns a version v, jdk_url succeeds and returns the
\* url stored at index[os][arch]["jdk@" + vendor][v], an existing entry of the
\* requested vendor, also when two versions of the vendor have the same key.
C8_UrlOfResolvedVersion ==
    (ipc = "located" /\ AllKeysPrefixed /\ resolved.kind = "return") =>
        /\ ~PlatformAbsent
        /\ JdkPrefix \o conf.vendor \in DOMAIN Platform
        /\ resolved.value \in DOMAIN Platform[JdkPrefix \o conf.vendor]
        /\ url.kind = "return"
        /\ url.value = UrlOf(conf.os, conf.arch, JdkPrefix \o conf.vendor, resolved.value)

\* two versions of the vendor with one key, and another vendor beside it
C8_Witness ==
    /\ ipc = "located"
    /\ AllKeysPrefixed
    /\ conf.vendor = Zulu
    /\ url.kind = "return"
    /\ {Dotted(<<8>>), Dotted(<<1, 8>>)} \subseteq VendorVersions
    /\ resolved.value = Dotted(<<8>>)
    /\ Cardinality(DOMAIN Platform) = 2

----------------------------------------------------------------------------
(* Claims about the version matcher *)

Range(seq) == {seq[i] : i \in 1..Len(seq)}

\* the remove_prefix_1 argument of the current call
RemovePrefix1 == ~matched.is_graal

\* the normalized request of the current call
NormReq == matched.normreq

RequestIsOpenEnded ==
    /\ NormReq.err = "none"
    /\ Len(NormReq.key) > 0
    /\ NormReq.key[Len(NormReq.key)] = Plus

\* the integer elements of the normalized request
ReqInts ==
    IF RequestIsOpenEnded
    THEN SubSeq(NormReq.key, 1, Len(NormReq.key) - 1)
    ELSE NormReq.key

\* candidates all of whose elements are integers, in the plain sense: the
\* string does not end with "+" and every piece between separators is a number
NumericCandidates ==
    {c \in Range(candidates) :
        ~EndsWith(c, <<"+">>) /\ NormalizeVersion(c, RemovePrefix1).err = "none"}

KeyOf(c) == NormalizeVersion(c, RemovePrefix1).key

CompatibleCandidates ==
    {c \in NumericCandidates : IsVersionCompatibleWithSpec(KeyOf(c), NormReq.key) = "True"}

\* what a scan of every numeric candidate, without the early stop, selects
FullScanAgrees ==
    IF CompatibleCandidates = {}
    THEN matched.kind = "LookupError"
    ELSE /\ matched.kind = "return"
         /\ matched.value \in CompatibleCandidates
         /\ \A c \in CompatibleCandidates :
                TupleGt(KeyOf(c), KeyOf(matched.value)) = "False"

\* C1: for every vendor, request and list of candidate strings, _match_version
\* ignores the candidates with a non-numeric element and returns the original
\* string of the greatest candidate compatible with the request, as a scan
\* without the early stop would, and raises the no-match error only when no
\* candidate is compatible.
C1_MatchIsFullScan ==
    (mpc = "done" /\ NormReq.err = "none") => FullScanAgrees

\* C1, on the lists in which no candidate ends with "+": the early stop never
\* changes the result of the scan.
C1_EarlyStopOnNumericLists ==
    (/\ mpc = "done"
     /\ NormReq.err = "none"
     /\ \A c \in Range(candidates) : ~EndsWith(c, <<"+">>)) => FullScanAgrees

\* a call on numeric candidates in which the early stop ended the scan before
\* the last key
C1_EarlyStopTaken ==
    /\ mpc = "done"
    /\ \A c \in Range(candidates) : ~EndsWith(c, <<"+">>)
    /\ matched.kind = "LookupError"
    /\ Len(matched.log) = 1
    /\ Cardinality({KeyOf(c) : c \in NumericCandidates}) = 2

\* the open-ended rule, stated element by element
OpenEndedRule(c, s) ==
    \/ Len(s) = 0
    \/ /\ Len(c) >= Len(s)
       /\ \A i \in 1..(Len(s) - 1) : c[i] = s[i]
       /\ c[Len(s)] >= s[Len(s)]

\* the plain rule, stated element by element
PlainRule(c, s) ==
    /\ Len(c) >= Len(s)
    /\ \A i \in 1..Len(s) : c[i] = s[i]

Single(key) == <<Dotted(key)>>

Returned(key) == matched.kind = "return" /\ matched.value = Dotted(key)

\* C2: under an open-ended request with integer elements s (n of them), a
\* candidate c is compatible iff len(c) >= n, c agrees with s on the first n-1
\* elements and c[n-1] >= s[n-1]; a bare marker matches every candidate.
\* "11+" matches "11", "11.0.2" and "12.0.0"; "11.0+" matches "11.0.5" and
\* "11.2.0" and does not match "10.9.9".
C2_OpenEndedCompatibility ==
    mpc = "done" =>
        /\ RequestIsOpenEnded =>
               \A i \in 1..Len(matched.log) :
                   matched.log[i].compat \in {"True", "False"} =>
                       (matched.log[i].compat = "True"
                            <=> OpenEndedRule(matched.log[i].key, ReqInts))
        /\ requested = OpenEnded(<<11>>) =>
               \A k \in {<<11>>, <<11, 0, 2>>, <<12, 0, 0>>} :
                   candidates = Single(k) => Returned(k)
        /\ requested = OpenEnded(<<11, 0>>) =>
               /\ \A k \in {<<11, 0, 5>>, <<11, 2, 0>>} :
                      candidates = Single(k) => Returned(k)
               /\ candidates = Single(<<10, 9, 9>>) => matched.kind = "LookupError"
        /\ requested = <<"+">> =>
               \A i \in 1..Len(matched.log) : matched.log[i].compat # "False"

C2_Witness ==
    /\ mpc = "done"
    /\ requested = OpenEnded(<<11, 0>>)
    /\ candidates = Single(<<11, 2, 0>>)
    /\ Returned(<<11, 2, 0>>)
    /\ matched.log[1].key = <<11, 2, 0>>

\* C3: under a request without the marker, a candidate is compatible iff its
\* key has at least as many elements as the request's and its leading elements
\* equal the request's; trailing zeros are kept, so with candidates "11" and
\* "11.0" the request "11.0" returns "11.0", and with candidate "11" alone it
\* fails with no match.
C3_PlainCompatibility ==
    mpc = "done" =>
        /\ (NormReq.err = "none" /\ ~RequestIsOpenEnded) =>
               \A i \in 1..Len(matched.log) :
                   matched.log[i].compat \in {"True", "False"} =>
                       (matched.log[i].compat = "True"
                            <=> PlainRule(matched.log[i].key, ReqInts))
        /\ requested = Dotted(<<11, 0>>) =>
               /\ Range(candidates) = {Dotted(<<11>>), Dotted(<<11, 0>>)}
                      => Returned(<<11, 0>>)
               /\ candidates = Single(<<11>>) => matched.kind = "LookupError"

C3_Witness ==
    /\ mpc = "done"
    /\ requested = Dotted(<<11, 0>>)
    /\ candidates = <<Dotted(<<11, 0>>), Dotted(<<11>>)>>
    /\ Returned(<<11, 0>>)

\* "1." put in front of a version string
WithPrefix1(v) == <<"1", ".">> \o v

\* a numeric version whose first element is not 1 (read without prefix removal)
FirstIsNot1(v) ==
    LET n == NormalizeVersion(v, FALSE)
    IN  n.err = "none" /\ Len(n.key) > 0 /\ n.key[1] \notin {1, Plus}

SameOutcome(o1, o2) ==
    /\ o1.kind = o2.kind
    /\ o1.kind = "return" => KeyOf(o1.value) = KeyOf(o2.value)

\* C4: prefix-1 removal depends only on the vendor and is applied to the
\* request and to every candidate alike: for a vendor that is not GraalVM and
\* a numeric version v whose first element is not 1, v and "1."+v are
\* interchangeable as request and as candidate; for a GraalVM vendor the
\* leading 1 is kept, "1.8.0" is not equivalent to "8.0" and request "8" does
\* not match candidate "1.8.0".
C4_Prefix1 ==
    mpc = "done" =>
        /\ (~IsGraal(vendor) /\ FirstIsNot1(requested)) =>
               SameOutcome(matched, MatchVersion(vendor, candidates, WithPrefix1(requested)))
        /\ ~IsGraal(vendor) =>
               \A i \in 1..Len(candidates) :
                   (FirstIsNot1(candidates[i]) /\ ~EndsWith(candidates[i], <<"+">>)) =>
                       SameOutcome(matched,
                           MatchVersion(vendor,
                               [candidates EXCEPT ![i] = WithPrefix1(candidates[i])],
                               requested))
        /\ (requested = Dotted(<<8>>) /\ candidates = Single(<<1, 8, 0>>)) =>
               IF IsGraal(vendor) THEN matched.kind = "LookupError"
               ELSE Returned(<<1, 8, 0>>)
        /\ (requested = Dotted(<<8>>) /\ candidates = Single(<<8, 0>>)) => Returned(<<8, 0>>)
        /\ IsGraal(vendor) =>
               NormalizeVersion(Dotted(<<1, 8, 0>>), RemovePrefix1).key
                   # NormalizeVersion(Dotted(<<8, 0>>), RemovePrefix1).key

C4_Witness ==
    /\ mpc = "done"
    /\ ~IsGraal(vendor)
    /\ requested = Dotted(<<8>>)
    /\ candidates = Single(<<1, 8, 0>>)
    /\ Returned(<<1, 8, 0>>)

\* a < b on tuples
TupleLt(a, b) == TupleGt(b, a)

\* the comparisons of line 150 the scan performed are all defined
ScanComparisonsDefined ==
    /\ \A i \in 1..Len(matched.log) : matched.log[i].cmp # "TypeError"
    /\ matched.kind = "TypeError" => matched.log = <<>>

\* C9 as stated: every candidate compatible with a request has a key that is
\* not smaller than the request's key, marker included, and the comparison
\* of the scan is always defined.
C9_NotSmallerThanRequestKey ==
    mpc = "done" =>
        /\ \A c \in CompatibleCandidates : TupleLt(KeyOf(c), NormReq.key) = "False"
        /\ ScanComparisonsDefined

\* C9 amended: every candidate compatible with a request has a key that is not
\* smaller than the request's integer elements (the key without the marker),
\* and every comparison of a candidate key with the request key that the scan
\* performs is defined.
C9_NotSmallerThanRequestInts ==
    mpc = "done" =>
        /\ \A c \in CompatibleCandidates : TupleLt(KeyOf(c), ReqInts) = "False"
        /\ ScanComparisonsDefined

\* an open-ended request and a compatible candidate that the scan reached
\* after comparing a greater, incompatible one with the request key
C9_Witness ==
    /\ mpc = "done"
    /\ RequestIsOpenEnded
    /\ matched.kind = "return"
    /\ Len(matched.log) = 2
    /\ matched.log[1].cmp = "True"
    /\ KeyOf(matched.value) = ReqInts

----------------------------------------------------------------------------
(* Claims about the cached index *)

IsPrefixOf(s, t) == Len(s) <= Len(t) /\ \A i \in 1..Len(s) : s[i] = t[i]

\* the sum of the GET requests of the first n calls
RECURSIVE GetsOf(_)
GetsOf(n) == IF n = 0 THEN 0 ELSE GetsOf(n - 1) + calls[n].gets

\* C7: a call of jdk_index made while the cached file exists and is younger
\* than index_ttl issues no GET and returns the document read from that file;
\* _fetch_index, and so the GET, runs only on a miss or after expiry, at most
\* once per call; a call that fetched followed by a call within the ttl make
\* exactly one GET together.
C7_OneFetchWithinTtl ==
    /\ gets = GetsOf(Len(calls))
    /\ \A i \in 1..Len(calls) :
           LET c     == calls[i]
               fresh == Fresh(c.before, cacheConf.index_ttl, c.at)
           IN  /\ fresh =>
                      /\ c.gets = 0
                      /\ c.steps = <<>>
                      /\ c.kind = "return"
                      /\ c.after = c.before
                      /\ c.value = ReadIndex(c.before.body)
               /\ c.steps # <<>> => ~fresh
               /\ c.gets <= 1
               /\ (c.kind = "return" /\ ~fresh) =>
                      /\ c.gets = 1
                      /\ c.after = [exists |-> TRUE, body |-> Dump(Json(c.response)),
                                    mtime |-> c.at]
                      /\ c.value = Json(c.response)
               /\ (/\ i < Len(calls)
                   /\ c.kind = "return"
                   /\ ~fresh
                   /\ calls[i + 1].at - c.at < cacheConf.index_ttl) =>
                      /\ calls[i + 1].gets = 0
                      /\ c.gets + calls[i + 1].gets = 1
                      /\ calls[i + 1].value = c.value

\* a fetch, then a second call one second later within the ttl, while the
\* server can no longer be reached
C7_Witness ==
    /\ Len(calls) = 2
    /\ ~calls[1].hit
    /\ calls[1].kind = "return"
    /\ calls[2].at = calls[1].at + 1
    /\ ~calls[2].response.up
    /\ calls[2].kind = "return"
    /\ calls[2].value = {Linux, Darwin}
    /\ gets = 1

\* the url is not https and the override is off
Insecure == ~cacheConf.allow_insecure_for_testing /\ cacheConf.scheme # "https"

\* C10: _fetch_index takes its steps in the order scheme check, GET, status
\* check, ASCII check, JSON parse, write; with a url that is not https and the
\* override off it fails before any GET; and whenever it fails (insecure url,
\* 4xx or 5xx status, body not ASCII, malformed JSON, server not reached) the
\* destination file is never opened, and the cached file keeps its contents.
C10_FetchOrder ==
    \A i \in 1..Len(calls) :
        LET c == calls[i]
            r == c.response
        IN  ~c.hit =>
                /\ IsPrefixOf(c.steps, IF cacheConf.allow_insecure_for_testing
                                       THEN Tail(FetchOrder) ELSE FetchOrder)
                /\ c.steps # <<>>
                /\ c.gets = Cardinality({j \in 1..Len(c.steps) : c.steps[j] = "get"})
                /\ Insecure =>
                       (c.kind = "ValueError" /\ c.steps = <<"scheme">> /\ c.gets = 0)
                /\ (\/ Insecure
                    \/ ~r.up
                    \/ r.status \in 400..599
                    \/ ~r.ascii
                    \/ ~r.wellformed) <=> c.kind # "return"
                /\ (~Insecure /\ r.up /\ r.status \in 400..599) =>
                       (c.kind = "HTTPError" /\ c.steps[Len(c.steps)] = "status")
                /\ (~Insecure /\ r.up /\ r.status \notin 400..599 /\ ~r.ascii) =>
                       (c.kind = "ValueError" /\ c.steps[Len(c.steps)] = "ascii")
                /\ (~Insecure /\ r.up /\ r.status \notin 400..599 /\ r.ascii
                        /\ ~r.wellformed) =>
                       (c.kind = "JSONDecodeError" /\ c.steps[Len(c.steps)] = "json")
                /\ c.kind # "return" =>
                       /\ \A j \in 1..Len(c.steps) : c.steps[j] # "write"
                       /\ ~c.dest.opened
                       /\ c.after = c.before
                /\ c.kind = "return" =>
                       /\ c.steps[Len(c.steps)] = "write"
                       /\ c.dest = [opened |-> TRUE, body |-> Dump(Json(r))]

\* the cached file has expired and the new body is not well-formed JSON
C10_Witness ==
    /\ Len(calls) = 2
    /\ calls[1].kind = "return"
    /\ calls[2].kind = "JSONDecodeError"
    /\ calls[2].steps = <<"scheme", "get", "status", "ascii", "json">>
    /\ calls[2].before.exists
    /\ slot = calls[1].after
    /\ gets = 2

====
